---- MODULE Spec2Model ----
(***************************************************************************)
(* A model of academic/cli.py: the BibTeX import pipeline.                 *)
(*                                                                         *)
(* Text is modelled character by character: a Python str is a sequence of  *)
(* one-character strings, "a.b" is <<"a", ".", "b">>.  Every string        *)
(* operation of the source (split, strip, replace, re.sub, lower, title,   *)
(* zfill, ...) is an operator on such sequences that computes what the     *)
(* Python operation computes on ASCII text.                                *)
(***************************************************************************)
EXTENDS Integers, Sequences, FiniteSets

VARIABLES
    pc,             \* position of the operation under way
    slug_in,        \* slugify: the argument s
    slug_lower,     \* slugify: the argument lower
    slug_once,      \* slugify(s, lower)
    slug_twice,     \* slugify(slugify(s, lower), lower)
    tag_in,         \* clean_bibtex_tags: the argument s (the keywords field)
    tag_normalize,  \* clean_bibtex_tags: the argument normalize
    tag_out,        \* clean_bibtex_tags: the returned tags_str
    date_entry,     \* the entry whose date is resolved (date, month, year)
    date_out,       \* what lines 200-217 of parse_bibtex_entry computed
    author_pieces,  \* the texts the author field was written from, in order
    author_field,   \* entry["author"]: the pieces joined by " and "
    member_roster,  \* member.txt as loaded: lines of link, last name, first name
    alumni_roster,  \* alumni.txt as loaded
    author_out,     \* what lines 273-292 of parse_bibtex_entry computed
    entries,        \* bib_database.entries, in the order they are processed
    next,           \* position in entries of the entry processed next
    config,         \* the flags of import_bibtex: overwrite, normalize, dry_run
    fs_init,        \* the content tree when the run started
    fs,             \* the content tree: directories and files written
    log,            \* the warnings and errors logged
    outcome         \* per processed entry: skipped, emitted or raised

slugVars == <<slug_in, slug_lower, slug_once, slug_twice>>
tagVars == <<tag_in, tag_normalize, tag_out>>
dateVars == <<date_entry, date_out>>
rosterVars == <<member_roster, alumni_roster>>
authorVars == <<author_pieces, author_field, author_out>>
runVars == <<entries, next, config, fs_init, fs, log, outcome>>
vars == <<pc, slugVars, tagVars, dateVars, rosterVars, authorVars, runVars>>

(***************************************************************************)
(* Characters                                                              *)
(***************************************************************************)
LowerLetters == <<"a","b","c","d","e","f","g","h","i","j","k","l","m",
                  "n","o","p","q","r","s","t","u","v","w","x","y","z">>
UpperLetters == <<"A","B","C","D","E","F","G","H","I","J","K","L","M",
                  "N","O","P","Q","R","S","T","U","V","W","X","Y","Z">>
Digits == <<"0","1","2","3","4","5","6","7","8","9">>

Range(f) == {f[i] : i \in DOMAIN f}

\* str.islower / str.isupper / str.isdigit / str.isalnum / str.isspace of one
\* ASCII character.
IsLower(c) == c \in Range(LowerLetters)
IsUpper(c) == c \in Range(UpperLetters)
IsDigit(c) == c \in Range(Digits)
IsAlnum(c) == IsLower(c) \/ IsUpper(c) \/ IsDigit(c)
\* str.isspace of one ASCII character, the characters str.strip() and
\* str.split() without an argument remove: space, \t, \n, \r, \f and the
\* control characters VT (0x0b), FS, GS, RS, US (0x1c-0x1f), written raw.
ControlSpaces == {"", "", "", "", ""}
IsSpace(c) == c \in {" ", "\t", "\n", "\r", "\f"} \cup ControlSpaces

\* str.lower / str.upper of one ASCII character.
ToLower(c) ==
    IF IsUpper(c)
    THEN LowerLetters[CHOOSE i \in DOMAIN UpperLetters : UpperLetters[i] = c]
    ELSE c
ToUpper(c) ==
    IF IsLower(c)
    THEN UpperLetters[CHOOSE i \in DOMAIN LowerLetters : LowerLetters[i] = c]
    ELSE c

(***************************************************************************)
(* Strings                                                                 *)
(***************************************************************************)
\* s[n:] of Python (n >= 0).
Drop(s, n) == SubSeq(s, n + 1, Len(s))
\* s[:n] of Python (n >= 0).
Take(s, n) == SubSeq(s, 1, IF n < Len(s) THEN n ELSE Len(s))

StartsWith(s, p) == Len(s) >= Len(p) /\ SubSeq(s, 1, Len(p)) = p

\* str.lower()
Lower(s) == [i \in 1..Len(s) |-> ToLower(s[i])]

RECURSIVE LStrip(_)
LStrip(s) == IF s /= <<>> /\ IsSpace(Head(s)) THEN LStrip(Tail(s)) ELSE s
RECURSIVE RStrip(_)
RStrip(s) ==
    IF s /= <<>> /\ IsSpace(s[Len(s)]) THEN RStrip(SubSeq(s, 1, Len(s) - 1)) ELSE s
\* str.strip()
Strip(s) == RStrip(LStrip(s))

\* sep.join(parts)
RECURSIVE Join(_, _)
Join(parts, sep) ==
    IF parts = <<>> THEN <<>>
    ELSE IF Len(parts) = 1 THEN parts[1]
    ELSE parts[1] \o sep \o Join(Tail(parts), sep)

\* s.split(sep, maxsplit): cur is the part being read, left the splits still
\* allowed (-1: no limit).  A non-empty sep, matched left to right.
RECURSIVE SplitFrom(_, _, _, _)
SplitFrom(s, sep, cur, left) ==
    IF s = <<>> THEN <<cur>>
    ELSE IF left = 0 THEN <<cur \o s>>
    ELSE IF StartsWith(s, sep)
         THEN <<cur>> \o SplitFrom(Drop(s, Len(sep)), sep, <<>>,
                                   IF left > 0 THEN left - 1 ELSE left)
    ELSE SplitFrom(Tail(s), sep, Append(cur, Head(s)), left)
\* s.split(sep)
SplitOn(s, sep) == SplitFrom(s, sep, <<>>, -1)
\* s.split(sep, 1)
SplitOnce(s, sep) == SplitFrom(s, sep, <<>>, 1)

\* s.split(): the maximal runs of non-whitespace characters.
RECURSIVE SplitWsFrom(_, _)
SplitWsFrom(s, cur) ==
    IF s = <<>> THEN (IF cur = <<>> THEN <<>> ELSE <<cur>>)
    ELSE IF IsSpace(Head(s))
         THEN (IF cur = <<>> THEN <<>> ELSE <<cur>>) \o SplitWsFrom(Tail(s), <<>>)
    ELSE SplitWsFrom(Tail(s), Append(cur, Head(s)))
SplitWs(s) == SplitWsFrom(s, <<>>)

\* s.replace(old, new), old non-empty: non-overlapping occurrences, left to
\* right.
RECURSIVE Replace(_, _, _)
Replace(s, old, new) ==
    IF s = <<>> THEN <<>>
    ELSE IF StartsWith(s, old) THEN new \o Replace(Drop(s, Len(old)), old, new)
    ELSE <<Head(s)>> \o Replace(Tail(s), old, new)

\* All sequences over S of length at most n.
RECURSIVE SeqsUpTo(_, _)
SeqsUpTo(S, n) ==
    IF n = 0 THEN {<<>>}
    ELSE LET shorter == SeqsUpTo(S, n - 1)
         IN  shorter \cup {Append(q, x) : q \in shorter, x \in S}

(***************************************************************************)
(* slugify (cli.py 306-321)                                                *)
(***************************************************************************)
\* The text re.sub writes for the template r"\-": "\-" is no escape the
\* template knows, so the backslash and the hyphen are both kept.
EscapedDelimiter == <<"\\", "-">>

\* for r in bad_symbols: s = s.replace(r, delimiter)
ReplaceBadSymbols(s) ==
    [i \in 1..Len(s) |-> IF s[i] \in {".", "_", ":"} THEN "-" ELSE s[i]]

\* re.sub(r"(\D+)(\d+)", r"\1\-\2", s).  A match is a maximal run of
\* non-digits and the maximal run of digits after it; matches do not overlap
\* and every place where a digit follows a non-digit lies in exactly one, so
\* the substitution writes "\-" at each such place.
RECURSIVE DelimitNonNumberNumber(_)
DelimitNonNumberNumber(s) ==
    IF Len(s) < 2 THEN s
    ELSE IF ~IsDigit(s[1]) /\ IsDigit(s[2])
         THEN <<s[1]>> \o EscapedDelimiter \o DelimitNonNumberNumber(Tail(s))
    ELSE <<s[1]>> \o DelimitNonNumberNumber(Tail(s))

\* re.sub(r"(\d+)(\D+)", r"\1\-\2", s): "\-" wherever a non-digit follows a
\* digit.
RECURSIVE DelimitNumberNonNumber(_)
DelimitNumberNonNumber(s) ==
    IF Len(s) < 2 THEN s
    ELSE IF IsDigit(s[1]) /\ ~IsDigit(s[2])
         THEN <<s[1]>> \o EscapedDelimiter \o DelimitNumberNonNumber(Tail(s))
    ELSE <<s[1]>> \o DelimitNumberNonNumber(Tail(s))

\* Whether the camel-case pattern matches the one character s[i]:
\* (?<=[a-z])[A-Z]  or  (?<!\A)[A-Z](?=[a-z]).
CamelAt(s, i) ==
    /\ IsUpper(s[i])
    /\ \/ (i > 1 /\ IsLower(s[i - 1]))
       \/ (i > 1 /\ i < Len(s) /\ IsLower(s[i + 1]))

\* re.sub(r"((?<=[a-z])[A-Z]|(?<!\A)[A-Z](?=[a-z]))", r"\-\1", s)
RECURSIVE DelimitCamelFrom(_, _)
DelimitCamelFrom(s, i) ==
    IF i > Len(s) THEN <<>>
    ELSE (IF CamelAt(s, i) THEN EscapedDelimiter ELSE <<>>)
         \o <<s[i]>> \o DelimitCamelFrom(s, i + 1)
DelimitCamel(s) == DelimitCamelFrom(s, 1)

\* "".join(c for c in s if c.isalnum() or c in good_symbols).strip()
StripSymbols(s) == Strip(SelectSeq(s, LAMBDA c : IsAlnum(c) \/ c = "-"))

\* slugify without its re.sub("-{2,}", "-", s): runs of hyphens are kept.
KeepHyphenRuns(s) == s

\* re.sub("-{2,}", "-", s)
RECURSIVE CollapseHyphens(_)
CollapseHyphens(s) ==
    IF Len(s) < 2 THEN s
    ELSE IF s[1] = "-" /\ s[2] = "-" THEN CollapseHyphens(Tail(s))
    ELSE <<s[1]>> \o CollapseHyphens(Tail(s))

slugify(s, lower) ==
    LET s1 == ReplaceBadSymbols(s)
        s2 == DelimitNonNumberNumber(s1)
        s3 == DelimitNumberNonNumber(s2)
        s4 == DelimitCamel(s3)
        s5 == StripSymbols(s4)
        s6 == CollapseHyphens(s5)
    IN  IF lower THEN Lower(s6) ELSE s6

(***************************************************************************)
(* clean_bibtex_str, clean_bibtex_tags (cli.py 382-390, 454-461)           *)
(***************************************************************************)
Remove(s, chars) == SelectSeq(s, LAMBDA c : c \notin chars)

\* s.replace("\t", " ").replace("\n", " ")
TabsToSpaces(s) == [i \in 1..Len(s) |-> IF s[i] \in {"\t", "\n"} THEN " " ELSE s[i]]

clean_bibtex_str(s) ==
    LET s1 == Remove(s, {"\\"})
        s2 == Replace(s1, <<"\"">>, <<"\\", "\"">>)
        s3 == Remove(s2, {"{", "}"})
        s4 == Remove(TabsToSpaces(s3), {"\r"})
    IN  Replace(s4, <<"1", "-", "x">>, <<"{", "1", "-", "x", "}">>)

\* str.capitalize(): the first character upper-cased, the rest lower-cased.
Capitalize(s) ==
    [i \in 1..Len(s) |-> IF i = 1 THEN ToUpper(s[i]) ELSE ToLower(s[i])]

\* f'"{tag.strip()}"'
QuotedTag(tag) == <<"\"">> \o Strip(tag) \o <<"\"">>

\* tag.lower().capitalize(), applied to the tag as quoted on line 457.
NormalizeTag(tag) == Capitalize(Lower(tag))

\* Line 457: every tag of the list stripped and quoted.
QuotedTags(tags) == [i \in 1..Len(tags) |-> QuotedTag(tags[i])]

\* Lines 458-459: every tag of the list normalized, when normalize is set.
NormalizedTags(tags, normalize) ==
    IF normalize THEN [i \in 1..Len(tags) |-> NormalizeTag(tags[i])] ELSE tags

clean_bibtex_tags(s, normalize) ==
    Join(NormalizedTags(QuotedTags(SplitOn(clean_bibtex_str(s), <<",">>)), normalize),
         <<",", " ">>)

(***************************************************************************)
(* month2number (cli.py 464-473) and the date fields of parse_bibtex_entry *)
(* (cli.py 200-217)                                                        *)
(***************************************************************************)
\* list(calendar.month_abbr) in the C locale: index 0 is the empty string.
\* TLA+ sequences count from 1, so entry k + 1 is month k.
month_abbr ==
    << <<>>,
       <<"J","a","n">>, <<"F","e","b">>, <<"M","a","r">>, <<"A","p","r">>,
       <<"M","a","y">>, <<"J","u","n">>, <<"J","u","l">>, <<"A","u","g">>,
       <<"S","e","p">>, <<"O","c","t">>, <<"N","o","v">>, <<"D","e","c">> >>

\* str.title(): a letter after a letter is lower-cased, any other letter
\* upper-cased.
Title(s) ==
    [i \in 1..Len(s) |->
        IF i > 1 /\ (IsLower(s[i - 1]) \/ IsUpper(s[i - 1]))
        THEN ToLower(s[i]) ELSE ToUpper(s[i])]

\* str(n) for 0 <= n <= 99.
Str(n) ==
    IF n < 10 THEN <<Digits[n + 1]>>
    ELSE <<Digits[(n \div 10) + 1], Digits[(n % 10) + 1]>>

\* s.zfill(2): zeros on the left, after a leading sign.
Zfill2(s) ==
    IF Len(s) >= 2 THEN s
    ELSE IF s = <<>> THEN <<"0", "0">>
    ELSE IF s[1] \in {"+", "-"} THEN <<s[1], "0">>
    ELSE <<"0", s[1]>>

\* month.strip()[:3].title()
MonthAbbr(month) == Title(Take(Strip(month), 3))

\* Whether the textual branch finds the abbreviation in the table.
MonthKnown(month) == \E k \in DOMAIN month_abbr : month_abbr[k] = MonthAbbr(month)

\* month2number(month): [raised, value, log].  On the ValueError of
\* list.index the handler calls log.error, which returns None, and
\* "raise None" is a TypeError that leaves the function.
month2number(month) ==
    IF Len(month) <= 2
    THEN [raised |-> FALSE, value |-> Zfill2(month), log |-> <<>>]
    ELSE IF MonthKnown(month)
    THEN LET k == CHOOSE k \in DOMAIN month_abbr :
                      /\ month_abbr[k] = MonthAbbr(month)
                      /\ \A j \in 1..(k - 1) : month_abbr[j] /= MonthAbbr(month)
         IN  [raised |-> FALSE, value |-> Zfill2(Str(k - 1)), log |-> <<>>]
    ELSE [raised |-> TRUE, value |-> <<>>,
          log |-> <<"Please update the entry with a valid month.">>]

Has(entry, fld) == fld \in DOMAIN entry

\* Lines 200-202: year = "", month = "01", day = "01".
DefaultDate == [year |-> <<>>, month |-> <<"0", "1">>, day |-> <<"0", "1">>]

\* Lines 205-210: year, month, day after the parts of the date field.
DateFromParts(dateparts) ==
    IF Len(dateparts) = 3
    THEN [year |-> dateparts[1], month |-> dateparts[2], day |-> dateparts[3]]
    ELSE IF Len(dateparts) = 2
    THEN [DefaultDate EXCEPT !.year = dateparts[1], !.month = dateparts[2]]
    ELSE IF Len(dateparts) = 1
    THEN [DefaultDate EXCEPT !.year = dateparts[1]]
    ELSE DefaultDate

\* Lines 200-210: year, month, day after the composite date field.
DateFromComposite(entry) ==
    IF ~Has(entry, "date") THEN DefaultDate
    ELSE DateFromParts(SplitOn(entry.date, <<"-">>))

\* Line 211 without its month == "01": the month field always replaces the
\* month of the composite date.
MonthFieldAlwaysUsed(entry, month) == Has(entry, "month")

\* Line 211: "month" in entry and month == "01"
UsesMonthField(entry, month) == Has(entry, "month") /\ month = <<"0", "1">>

\* Line 213: "year" in entry and year == ""
UsesYearField(entry, year) == Has(entry, "year") /\ year = <<>>

\* Lines 211-212: the month after the month field, c the date of lines
\* 200-210: [raised, value, log].
MonthResolved(entry, c) ==
    IF UsesMonthField(entry, c.month)
    THEN month2number(entry.month)
    ELSE [raised |-> FALSE, value |-> c.month, log |-> <<>>]

\* Lines 213-214: the year after the year field.
YearResolved(entry, c) == IF UsesYearField(entry, c.year) THEN entry.year ELSE c.year

\* Lines 215-217: the date written, m the month and year the year resolved.
\* An exception of month2number leaves parse_bibtex_entry.
DateResolved(c, m, year) ==
    IF m.raised
    THEN [raised |-> TRUE, year |-> <<>>, month |-> <<>>, day |-> <<>>, log |-> m.log]
    ELSE [raised |-> FALSE, year |-> year, month |-> m.value, day |-> c.day,
          log |-> m.log \o (IF Len(year) = 0
                            THEN <<"Invalid date for entry.">> ELSE <<>>)]

\* Lines 211-217 from the date of lines 200-210.
ResolveDateFrom(entry, c) ==
    DateResolved(c, MonthResolved(entry, c), YearResolved(entry, c))

\* Lines 200-217: [raised, year, month, day, log].
ResolveDate(entry) == ResolveDateFrom(entry, DateFromComposite(entry))

(***************************************************************************)
(* clean_bibtex_authors (cli.py 324-379) and the author blocks of          *)
(* parse_bibtex_entry (cli.py 273-292)                                     *)
(*                                                                         *)
(* A roster is the sequence of its file's lines, each a record of the      *)
(* three words read on lines 131-134 (link, last, first): position i of    *)
(* member_link, member_last and member_first.                              *)
(***************************************************************************)
Suffixes == { <<"j","n","r">>, <<"j","r">>, <<"j","u","n","i","o","r">> }
Particles == { <<"b","e","n">>, <<"v","a","n">>, <<"d","e","r">>, <<"d","e">>,
               <<"l","a">>, <<"l","e">> }

Front(q) == SubSeq(q, 1, Len(q) - 1)
Last(q) == q[Len(q)]

\* Lines 335-336: last name and first names of "last, first ...".
CommaName(split_names) ==
    [last_name |-> Strip(split_names[1]), first_names |-> SplitWs(split_names[2])]

\* Line 340: [i.replace(".", ". ").strip() for i in split_names]
SpacedInitials(names) ==
    [i \in 1..Len(names) |-> Strip(Replace(names[i], <<".">>, <<".", " ">>))]

\* Lines 338-340: last name and first names of "first ... last".
PlainName(split_names) ==
    [last_name |-> Last(split_names),
     first_names |-> SpacedInitials(Front(split_names))]

\* Lines 333-340: the token split into first names and last name.
SplitName(s) ==
    IF \E i \in DOMAIN s : s[i] = ","
    THEN CommaName(SplitOnce(s, <<",">>))
    ELSE PlainName(SplitWs(s))

\* Line 341: last_name in ["jnr", "jr", "junior"]
IsSuffix(last_name) == last_name \in Suffixes

\* Lines 343-345.  The for loop reads first_names by position while the body
\* pops its last element: the loop ends when the position passes the length
\* the list has then.
RECURSIVE AbsorbParticles(_, _, _)
AbsorbParticles(first_names, last_name, pos) ==
    IF pos > Len(first_names)
    THEN [raised |-> FALSE, first_names |-> first_names, last_name |-> last_name]
    ELSE IF first_names[pos] \in Particles
         THEN AbsorbParticles(Front(first_names),
                              Last(first_names) \o <<" ">> \o last_name, pos + 1)
    ELSE AbsorbParticles(first_names, last_name, pos + 1)

\* Lines 341-345 on the name n of lines 333-340: [raised, first_names,
\* last_name].  first_names.pop() on an empty list is an IndexError.
DropSuffix(n) ==
    IF ~IsSuffix(n.last_name) THEN AbsorbParticles(n.first_names, n.last_name, 1)
    ELSE IF n.first_names = <<>>
    THEN [raised |-> TRUE, first_names |-> <<>>, last_name |-> <<>>]
    ELSE AbsorbParticles(Front(n.first_names), Last(n.first_names), 1)

\* Lines 333-345: [raised, first_names, last_name].
ParseName(s) == DropSuffix(SplitName(s))

\* Line 346: f'"{" ".join(first_names)} {last_name}"'
DisplayName(first_names, last_name) ==
    <<"\"">> \o Join(first_names, <<" ">>) \o <<" ">> \o last_name \o <<"\"">>

\* Lines 352-357 (368-373): whether the loop stops at roster line i.
MatchesLine(first_names, person) ==
    IF first_names[1] = person.first THEN TRUE
    ELSE first_names[1][1] = person.first[1]

\* Lines 351-357: the first line of lastnamematch at which the loop breaks;
\* -1 when it breaks at none.
RECURSIVE FirstMatch(_, _, _)
FirstMatch(first_names, roster, lastnamematch) ==
    IF lastnamematch = <<>> THEN -1
    ELSE IF MatchesLine(first_names, roster[Head(lastnamematch)])
         THEN Head(lastnamematch)
    ELSE FirstMatch(first_names, roster, Tail(lastnamematch))

\* [i for i, j in enumerate(member_last) if j == last_name]
RECURSIVE LastNameMatch(_, _, _)
LastNameMatch(roster, last_name, i) ==
    IF i > Len(roster) THEN <<>>
    ELSE (IF roster[i].last = last_name THEN <<i>> ELSE <<>>)
         \o LastNameMatch(roster, last_name, i + 1)

\* Lines 359-362 (374-377): the link appended for matched.
MatchedLink(roster, matched) == IF matched >= 0 THEN roster[matched].link ELSE <<>>

\* Lines 351-362 (367-377) over lastnamematch: [raised, link].
\* first_names[0] of an empty list is an IndexError; it is read only when a
\* roster line has the last name.
MatchAmong(first_names, roster, lastnamematch) ==
    IF lastnamematch /= <<>> /\ first_names = <<>>
    THEN [raised |-> TRUE, link |-> <<>>]
    ELSE [raised |-> FALSE,
          link |-> MatchedLink(roster, FirstMatch(first_names, roster, lastnamematch))]

\* Lines 349-362 (365-377): [raised, link].
MatchRoster(first_names, last_name, roster) ==
    MatchAmong(first_names, roster, LastNameMatch(roster, last_name, 1))

\* The appends with the display name inserted at the head of authors
\* (authors.insert(0, ...)) instead of appended.
AppendAuthorNameFirst(acc, parsed, name, member, alumni) ==
    [acc EXCEPT !.names = Append(@, parsed),
                !.authors = <<name>> \o @,
                !.member = Append(@, member),
                !.alumni = Append(@, alumni)]

\* Lines 346, 360-362, 375-377: the three appends of one iteration.
AppendAuthor(acc, parsed, name, member, alumni) ==
    [acc EXCEPT !.names = Append(@, parsed),
                !.authors = Append(@, name),
                !.member = Append(@, member),
                !.alumni = Append(@, alumni)]

Raised == [raised |-> TRUE, names |-> <<>>, authors |-> <<>>, member |-> <<>>,
           alumni |-> <<>>]

\* Lines 346-377 of one iteration: the lists after the appends, m and a the
\* matches of the parsed name p in the two rosters.
Appended(acc, p, m, a) ==
    IF m.raised \/ a.raised THEN Raised
    ELSE AppendAuthor(acc, [first_names |-> p.first_names, last_name |-> p.last_name],
                      DisplayName(p.first_names, p.last_name), m.link, a.link)

\* Lines 346-377 of one iteration for the parsed name p.
Matched(acc, p, members, alumni) ==
    IF p.raised THEN Raised
    ELSE Appended(acc, p, MatchRoster(p.first_names, p.last_name, members),
                  MatchRoster(p.first_names, p.last_name, alumni))

\* Lines 330-377: one iteration of the loop for the token s, stripped.
CleanAuthor(acc, s, members, alumni) ==
    IF Len(s) < 1 THEN acc ELSE Matched(acc, ParseName(s), members, alumni)

\* The loop of lines 329-377 from token k on.  acc.names keeps the
\* (first_names, last_name) of each iteration beside the three lists that
\* are returned; an exception ends the loop.
RECURSIVE CleanAuthorsFrom(_, _, _, _, _)
CleanAuthorsFrom(author_str, k, members, alumni, acc) ==
    IF k > Len(author_str) \/ acc.raised THEN acc
    ELSE CleanAuthorsFrom(author_str, k + 1, members, alumni,
                          CleanAuthor(acc, Strip(author_str[k]), members, alumni))

clean_bibtex_authors(author_str, members, alumni) ==
    CleanAuthorsFrom(author_str, 1, members, alumni,
        [raised |-> FALSE, names |-> <<>>, authors |-> <<>>, member |-> <<>>,
         alumni |-> <<>>])

\* [i.strip() for i in parts]
StripAll(parts) == [i \in 1..Len(parts) |-> Strip(parts[i])]

\* Line 279: [i.strip() for i in authors.replace("\n", " ").split(" and ")]
AuthorTokens(authors) ==
    StripAll(SplitOn(Replace(authors, <<"\n">>, <<" ">>), <<" ", "a", "n", "d", " ">>))

\* Lines 282-292: the [[authors]] block of author i.
AuthorBlock(name, member, alumni) ==
    IF member = <<>> /\ alumni = <<>>
    THEN [name |-> name, flag |-> "is_member = false", link |-> <<>>]
    ELSE IF alumni = <<>>
    THEN [name |-> name, flag |-> "is_member = true", link |-> <<"/">> \o member]
    ELSE [name |-> name, flag |-> "is_former_member = true",
          link |-> <<"/","a","l","u","m","n","i","/">> \o alumni]

\* Lines 278-292 for the author (or editor) field: the lists returned by
\* clean_bibtex_authors and the blocks written from them.  An empty field
\* writes no block.
\* Lines 280-292: the blocks written from the lists r returned by
\* clean_bibtex_authors.
BlocksOf(r) ==
    [raised |-> r.raised, names |-> r.names, authors |-> r.authors,
     member |-> r.member, alumni |-> r.alumni,
     blocks |-> [i \in 1..Len(r.authors) |->
                    AuthorBlock(r.authors[i], r.member[i], r.alumni[i])]]

AuthorBlocks(authors, members, alumni) ==
    IF authors = <<>>
    THEN [raised |-> FALSE, names |-> <<>>, authors |-> <<>>, member |-> <<>>,
          alumni |-> <<>>, blocks |-> <<>>]
    ELSE BlocksOf(clean_bibtex_authors(AuthorTokens(authors), members, alumni))

(***************************************************************************)
(* parse_bibtex_entry (cli.py 167-303)                                     *)
(*                                                                         *)
(* The content tree is the directory content/<pub_dir> (content_dir), the  *)
(* directory static/bib/<pub_dir> (static_dir), the Markdown files         *)
(* <slug>.md of the first (md) and the citation files <slug>.bib of the    *)
(* second (bib).  An entry is a record of its fields; of the front matter  *)
(* the record written keeps the title, the date, the tags and the author   *)
(* blocks.  publishDate, the wall clock of the run, is left out.           *)
(***************************************************************************)
\* f[k] = v, k added to the domain when it is new: open(path, "w") and write.
WriteFile(f, k, v) == [x \in (DOMAIN f) \cup {k} |-> IF x = k THEN v ELSE f[x]]

\* Lines 273-277: the author field, else the editor field, else None.
AuthorsOf(entry) ==
    IF Has(entry, "author") THEN entry.author
    ELSE IF Has(entry, "editor") THEN entry.editor
    ELSE <<>>

NoRecord == <<>>

\* Lines 179-181: not overwrite and os.path.isdir(bundle_path).  bundle_path
\* is content/<pub_dir>, the one directory of every entry.
SkipsEntry(cfg, tree) == ~cfg.overwrite /\ tree.content_dir

\* Line 186: Path(bundle_path).mkdir(parents=True, exist_ok=True)
MakeBundleDir(cfg, tree) ==
    IF cfg.dry_run THEN tree ELSE [tree EXCEPT !.content_dir = TRUE]

\* Lines 193-195: the citation file written.
SaveCitation(cfg, tree, slug, entry) ==
    IF cfg.dry_run THEN tree ELSE [tree EXCEPT !.bib = WriteFile(@, slug, entry)]

\* Lines 299-303: the tree after the Markdown file is written.
\* open(markdown_path, "w") needs the directory content/<pub_dir>; without
\* it the IOError is caught at line 302 and nothing is written.
SaveMarkdown(cfg, tree, slug, record) ==
    IF cfg.dry_run \/ ~tree.content_dir THEN tree
    ELSE [tree EXCEPT !.md = WriteFile(@, slug, record)]

\* Lines 302-303: what the except branch logs.
SaveMarkdownLog(cfg, tree) ==
    IF ~cfg.dry_run /\ ~tree.content_dir THEN <<"Could not save file.">> ELSE <<>>

\* Lines 257-258: the tags line, written when the entry has keywords.
WithTags(entry, cfg, base) ==
    IF Has(entry, "keywords")
    THEN [f \in {"title", "date", "authors", "tags"} |->
             IF f = "tags" THEN clean_bibtex_tags(entry.keywords, cfg.normalize)
             ELSE base[f]]
    ELSE base

\* The front matter of lines 198-294, d the date and a the author blocks.
FrontMatter(entry, cfg, d, a) ==
    WithTags(entry, cfg,
             [title |-> clean_bibtex_str(entry.title),
              date |-> [year |-> d.year, month |-> d.month, day |-> d.day],
              authors |-> a.blocks])

\* Lines 183-303 for an entry that is not skipped: slug the slug of its ID,
\* made the tree after line 186, d the date of lines 200-217, a the author
\* blocks of lines 273-292.  open(cite_path, "w") needs the directory
\* static/bib/<pub_dir>, which nothing creates.
EmitEntry(entry, cfg, made, slug, d, a) ==
    IF ~cfg.dry_run /\ ~made.static_dir
    THEN [status |-> "raised", error |-> "FileNotFoundError", record |-> NoRecord,
          fs |-> made, log |-> <<>>]
    ELSE IF d.raised
    THEN [status |-> "raised", error |-> "TypeError", record |-> NoRecord,
          fs |-> SaveCitation(cfg, made, slug, entry), log |-> d.log]
    ELSE IF a.raised
    THEN [status |-> "raised", error |-> "IndexError", record |-> NoRecord,
          fs |-> SaveCitation(cfg, made, slug, entry), log |-> d.log]
    ELSE [status |-> "emitted", error |-> "", record |-> FrontMatter(entry, cfg, d, a),
          fs |-> SaveMarkdown(cfg, SaveCitation(cfg, made, slug, entry), slug,
                              FrontMatter(entry, cfg, d, a)),
          log |-> d.log \o SaveMarkdownLog(cfg, made)]

\* parse_bibtex_entry(entry, ...) on the tree: [status, error, record, fs,
\* log].  status is "skipped" (line 181), "raised" (an exception left the
\* function) or "emitted" (lines 296-303 passed; the file is written unless
\* dry_run or the open fails).
ParseEntry(entry, members, alumni, cfg, tree) ==
    IF SkipsEntry(cfg, tree)
    THEN [status |-> "skipped", error |-> "", record |-> NoRecord, fs |-> tree,
          log |-> <<"Skipping creation as it already exists.">>]
    ELSE EmitEntry(entry, cfg, MakeBundleDir(cfg, tree), slugify(entry.ID, TRUE),
                   ResolveDate(entry), AuthorBlocks(AuthorsOf(entry), members, alumni))

\* Lines 163-164 after one entry: r what parse_bibtex_entry did.
RECURSIVE RunFrom(_, _, _, _, _)
AfterEntry(rest, members, alumni, cfg, r) ==
    IF r.status = "raised" THEN r.fs ELSE RunFrom(rest, members, alumni, cfg, r.fs)

\* The loop of import_bibtex (lines 163-164) over order from the tree: the
\* tree the run ends with.  An exception of parse_bibtex_entry ends the run.
RunFrom(order, members, alumni, cfg, tree) ==
    IF order = <<>> THEN tree
    ELSE AfterEntry(Tail(order), members, alumni, cfg,
                    ParseEntry(Head(order), members, alumni, cfg, tree))

(***************************************************************************)
(* Idle values of the variables a specification does not use.              *)
(***************************************************************************)
SlugIdle ==
    /\ slug_in = <<>> /\ slug_lower = TRUE /\ slug_once = <<>> /\ slug_twice = <<>>
TagIdle == tag_in = <<>> /\ tag_normalize = FALSE /\ tag_out = <<>>
DateIdle == date_entry = <<>> /\ date_out = <<>>
RosterIdle == member_roster = <<>> /\ alumni_roster = <<>>
AuthorIdle == author_pieces = <<>> /\ author_field = <<>> /\ author_out = <<>>
RunIdle ==
    /\ entries = <<>> /\ next = 1 /\ config = <<>> /\ fs_init = <<>> /\ fs = <<>>
    /\ log = <<>> /\ outcome = <<>>

(***************************************************************************)
(* SpecSlug: slugify applied to a key, and again to its own result.        *)
(***************************************************************************)
MaxSlugLen == 4
SlugAlphabet == {"a", "B", "1", "-", ".", "!"}

InitSlug ==
    /\ pc = "slug_start"
    /\ slug_in \in SeqsUpTo(SlugAlphabet, MaxSlugLen)
    /\ slug_lower \in BOOLEAN
    /\ slug_once = <<>>
    /\ slug_twice = <<>>
    /\ TagIdle /\ DateIdle /\ RosterIdle /\ AuthorIdle /\ RunIdle

Slugify ==
    /\ pc = "slug_start"
    /\ slug_once' = slugify(slug_in, slug_lower)
    /\ pc' = "slug_once"
    /\ UNCHANGED <<slug_in, slug_lower, slug_twice, tagVars, dateVars, rosterVars, authorVars, runVars>>

SlugifyAgain ==
    /\ pc = "slug_once"
    /\ slug_twice' = slugify(slug_once, slug_lower)
    /\ pc' = "slug_twice"
    /\ UNCHANGED <<slug_in, slug_lower, slug_once, tagVars, dateVars, rosterVars, authorVars, runVars>>

NextSlug == Slugify \/ SlugifyAgain

SpecSlug == InitSlug /\ [][NextSlug]_vars

\* C7 as stated: slugify is idempotent, with the default lowercasing and with
\* lower=False alike: slugify(slugify(s)) = slugify(s).
SlugifyIdempotent == pc = "slug_twice" => slug_twice = slug_once

\* C7 as amended: slugify is idempotent with the default lowercasing
\* (lower=True).
SlugifyIdempotentLower ==
    (pc = "slug_twice" /\ slug_lower) => slug_twice = slug_once

\* A reached case of C7: a key with a stripped symbol, camel case and a digit
\* run, slugged twice with lowercasing.
SlugifyIdempotentWitness ==
    /\ pc = "slug_twice"
    /\ slug_lower
    /\ slug_in = <<"a", "!", "B", "1">>
    /\ slug_once = <<"a", "b", "-", "1">>
    /\ slug_twice = slug_once

(***************************************************************************)
(* SpecTags: clean_bibtex_tags applied to a keywords field.                *)
(***************************************************************************)
MaxTagLen == 4
TagAlphabet == {"m", "L", ",", " ", "{", "1"}
MachineLearning ==
    <<"m","a","c","h","i","n","e"," ","L","E","A","R","N","I","N","G">>

InitTags ==
    /\ pc = "tags_start"
    /\ tag_in \in SeqsUpTo(TagAlphabet, MaxTagLen) \cup {MachineLearning}
    /\ tag_normalize \in BOOLEAN
    /\ tag_out = <<>>
    /\ SlugIdle /\ DateIdle /\ RosterIdle /\ AuthorIdle /\ RunIdle

CleanTags ==
    /\ pc = "tags_start"
    /\ tag_out' = clean_bibtex_tags(tag_in, tag_normalize)
    /\ pc' = "tags_done"
    /\ UNCHANGED <<tag_in, tag_normalize, slugVars, dateVars, rosterVars, authorVars, runVars>>

NextTags == CleanTags

SpecTags == InitTags /\ [][NextTags]_vars

\* The tag the claim describes for one keyword of the sanitized field.
ClaimedTag(keyword, normalize) ==
    LET k == Strip(keyword)
    IN  <<"\"">> \o (IF normalize THEN Capitalize(Lower(k)) ELSE k) \o <<"\"">>

\* C9: with normalize, every emitted tag is the sanitized, trimmed keyword
\* lowercased with its first character capitalized; without normalize its
\* case is unchanged.
TagsNormalized ==
    pc = "tags_done" =>
        LET raw == SplitOn(clean_bibtex_str(tag_in), <<",">>)
        IN  tag_out = Join([i \in 1..Len(raw) |-> ClaimedTag(raw[i], tag_normalize)],
                           <<",", " ">>)

(***************************************************************************)
(* SpecDate: lines 200-217 of parse_bibtex_entry applied to an entry's     *)
(* date, month and year fields.                                            *)
(***************************************************************************)
MaxDateParts == 3
DatePartValues == {<<>>, <<"2","0","2","0">>, <<"0","1">>, <<"0","3">>}
MonthValues ==
    { <<"7">>, <<"1","2">>, <<>>, <<"J","u","l","y">>, <<"j","u","l">>,
      <<"F","o","o">>, <<" "," "," ">>, <<" ","M","A","R","C","H">> }
YearValues == { <<"1","9","9","9">>, <<>> }

DateValues ==
    {Join(parts, <<"-">>) : parts \in SeqsUpTo(DatePartValues, MaxDateParts) \ {<<>>}}

\* Entries: each of date, month and year present or absent.
DateEntries ==
    LET D == {[date |-> d] : d \in DateValues}
        M == {[month |-> m] : m \in MonthValues}
        Y == {[year |-> y] : y \in YearValues}
        Merge(a, b) == [f \in (DOMAIN a) \cup (DOMAIN b) |->
                            IF f \in DOMAIN a THEN a[f] ELSE b[f]]
        DM == D \cup M \cup {Merge(d, m) : d \in D, m \in M}
    IN  {<<>>} \cup DM \cup Y \cup {Merge(x, y) : x \in DM, y \in Y}

InitDate ==
    /\ pc = "date_start"
    /\ date_entry \in DateEntries
    /\ date_out = <<>>
    /\ SlugIdle /\ TagIdle /\ RosterIdle /\ AuthorIdle /\ RunIdle

ResolveEntryDate ==
    /\ pc = "date_start"
    /\ date_out' = ResolveDate(date_entry)
    /\ pc' = IF date_out'.raised THEN "date_raised" ELSE "date_done"
    /\ UNCHANGED <<date_entry, slugVars, tagVars, rosterVars, authorVars, runVars>>

NextDate == ResolveEntryDate

SpecDate == InitDate /\ [][NextDate]_vars

DateTried == pc \in {"date_done", "date_raised"}
CompositeParts == SplitOn(date_entry.date, <<"-">>)
HasYearMonthDate ==
    Has(date_entry, "date") /\ Len(CompositeParts) \in {2, 3}

\* C6 as stated: when the date field splits into a year part and a month part
\* (2 or 3 parts), the resolved year and month are those parts, whatever the
\* separate month and year fields hold.
CompositeDateWins ==
    (pc = "date_done" /\ HasYearMonthDate) =>
        /\ date_out.year = CompositeParts[1]
        /\ date_out.month = CompositeParts[2]

\* C6 as amended: the resolved month is the month part of date unless that
\* part is "01" and a separate month field is present; the resolved year is
\* the year part of date unless that part is empty and a separate year field
\* is present.  In the cases where the month part stands, resolution returns.
CompositeDateWinsUnlessDefault ==
    (DateTried /\ HasYearMonthDate) =>
        /\ (CompositeParts[2] /= <<"0", "1">> \/ ~Has(date_entry, "month")) =>
              (pc = "date_done" /\ date_out.month = CompositeParts[2])
        /\ (pc = "date_done"
            /\ (CompositeParts[1] /= <<>> \/ ~Has(date_entry, "year"))) =>
              date_out.year = CompositeParts[1]

\* A reached case of C6: date = "2020-03" with month = "July" resolves to
\* 2020-03.
CompositeDateWinsWitness ==
    /\ pc = "date_done"
    /\ Has(date_entry, "date") /\ Has(date_entry, "month")
    /\ date_entry.date = <<"2","0","2","0","-","0","3">>
    /\ date_entry.month = <<"J","u","l","y">>
    /\ date_out.year = <<"2","0","2","0">>
    /\ date_out.month = <<"0","3">>

(***************************************************************************)
(* SpecAuthors: lines 273-292 of parse_bibtex_entry applied to an author   *)
(* field holding one name, against every pair of small rosters.            *)
(***************************************************************************)
MaxWords == 3
MaxRoster == 2

Jo == <<"J", "o">>
Ja == <<"J", "a">>
Sm == <<"S", "m">>
Le == <<"L", "e">>
NameWords == {Jo, Ja, <<"J", ".">>, Sm, <<"j", "r">>, <<"J", "r">>, <<"d", "e">>}

\* The people a roster file may list: the link names the line.
People == { [link |-> <<"j", "o">>, last |-> Sm, first |-> Jo],
            [link |-> <<"j", "a">>, last |-> Sm, first |-> Ja] }
Rosters == SeqsUpTo(People, MaxRoster)

CommaFreeTokens ==
    {Join(ws, <<" ">>) : ws \in SeqsUpTo(NameWords, MaxWords) \ {<<>>}}
CommaTokens ==
    {l \o <<",">> \o f : l \in {<<>>, Sm, <<"j", "r">>},
                         f \in {<<>>, <<" ">> \o Jo, <<" ">> \o Ja, Jo}}
NameTokens == CommaFreeTokens \cup CommaTokens

InitAuthors ==
    /\ pc = "authors_start"
    /\ author_pieces \in {<<tok>> : tok \in NameTokens}
    /\ author_field = author_pieces[1]
    /\ member_roster \in Rosters
    /\ alumni_roster \in Rosters
    /\ author_out = <<>>
    /\ SlugIdle /\ TagIdle /\ DateIdle /\ RunIdle

ParseAuthors ==
    /\ pc = "authors_start"
    /\ author_out' = AuthorBlocks(author_field, member_roster, alumni_roster)
    /\ pc' = IF author_out'.raised THEN "authors_raised" ELSE "authors_done"
    /\ UNCHANGED <<author_pieces, author_field, rosterVars, slugVars, tagVars, dateVars, runVars>>

NextAuthors == ParseAuthors

SpecAuthors == InitAuthors /\ [][NextAuthors]_vars

\* The lines of a roster that carry the parsed author's last name and first
\* given name exactly.
ExactLines(roster, name) ==
    {i \in DOMAIN roster :
        /\ name.first_names /= <<>>
        /\ roster[i].last = name.last_name
        /\ roster[i].first = name.first_names[1]}

Min(S) == CHOOSE x \in S : \A y \in S : x <= y

\* C1: an author whose parsed name is in the member roster and in the alumni
\* roster (same last name, same first name) is emitted as a member, with the
\* link to the member profile, never as a former member.
MemberMatchWins ==
    pc = "authors_done" =>
        \A k \in DOMAIN author_out.names :
            (/\ ExactLines(member_roster, author_out.names[k]) /= {}
             /\ ExactLines(alumni_roster, author_out.names[k]) /= {}) =>
                /\ author_out.blocks[k].flag = "is_member = true"
                /\ author_out.blocks[k].link = <<"/">> \o author_out.member[k]

\* C2: when roster lines with the author's last name include one whose first
\* name is the author's first given name exactly, the link returned is that
\* of the (first) exact line, whatever the order of the lines: a line that
\* agrees only on the initial is chosen only when no line matches exactly.
ExactMatchPreferred ==
    pc = "authors_done" =>
        \A k \in DOMAIN author_out.names :
            /\ ExactLines(member_roster, author_out.names[k]) /= {} =>
                  author_out.member[k] =
                      member_roster[Min(ExactLines(member_roster, author_out.names[k]))].link
            /\ ExactLines(alumni_roster, author_out.names[k]) /= {} =>
                  author_out.alumni[k] =
                      alumni_roster[Min(ExactLines(alumni_roster, author_out.names[k]))].link

\* C3: the author parser and matcher never raises: every token gets a
\* result, at worst an unmatched author.
AuthorsNeverRaise == pc /= "authors_raised"

\* C10: a comma-free token whose last word is jnr, jr or junior in any case,
\* with a first name before the surname, loses the suffix: the word before
\* it is the last name of the display name and of the roster match.
SuffixDropped ==
    LET tok == author_pieces[1]
        words == SplitWs(tok)
    IN  (/\ pc \in {"authors_done", "authors_raised"}
         /\ \A i \in DOMAIN tok : tok[i] /= ","
         /\ Len(words) >= 3
         /\ Lower(Last(words)) \in Suffixes) =>
            /\ pc = "authors_done"
            /\ author_out.names[1].last_name = words[Len(words) - 1]
            /\ Len(author_out.names[1].first_names) = Len(words) - 2
            /\ author_out.authors[1] =
                   DisplayName(author_out.names[1].first_names, words[Len(words) - 1])
            /\ author_out.member[1] =
                   MatchRoster(author_out.names[1].first_names,
                               words[Len(words) - 1], member_roster).link

(***************************************************************************)
(* SpecAuthorField: the same lines applied to a field of several names     *)
(* joined by " and ", some of them empty or blank.                         *)
(***************************************************************************)
MaxTokens == 3

FieldPieces ==
    { <<>>, <<" ">>, Jo \o <<" ">> \o Sm, Sm \o <<",", " ">> \o Ja, Sm,
      <<"J", ".", "\n", "d", "e", " ">> \o Le \o <<" ", "j", "r">> }

FieldRosters ==
    { [m |-> <<>>, a |-> <<>>],
      [m |-> <<[link |-> <<"j", "o">>, last |-> Sm, first |-> Jo]>>, a |-> <<>>],
      [m |-> <<[link |-> <<"j", "a">>, last |-> Sm, first |-> Ja]>>,
       a |-> <<[link |-> <<"j", "o">>, last |-> Sm, first |-> Jo]>>],
      [m |-> <<>>, a |-> <<[link |-> <<"l", "e">>, last |-> Le, first |-> Ja]>>] }

InitAuthorField ==
    /\ pc = "authors_start"
    /\ author_pieces \in SeqsUpTo(FieldPieces, MaxTokens)
    /\ author_field = Join(author_pieces, <<" ", "a", "n", "d", " ">>)
    /\ \E r \in FieldRosters : member_roster = r.m /\ alumni_roster = r.a
    /\ author_out = <<>>
    /\ SlugIdle /\ TagIdle /\ DateIdle /\ RunIdle

SpecAuthorField == InitAuthorField /\ [][NextAuthors]_vars

\* A piece as line 279 hands it on: newlines made spaces, then stripped.
PieceToken(piece) == Strip(Replace(piece, <<"\n">>, <<" ">>))
NonEmptyPieces == SelectSeq(author_pieces, LAMBDA piece : PieceToken(piece) /= <<>>)

\* C4: the display names returned are as many as the non-empty tokens of the
\* field and in their order, and the member and alumni link lists (and the
\* blocks written) have the same length, position i of each being the i-th
\* non-empty token's.
AuthorOrderPreserved ==
    pc = "authors_done" =>
        /\ Len(author_out.authors) = Len(NonEmptyPieces)
        /\ Len(author_out.member) = Len(NonEmptyPieces)
        /\ Len(author_out.alumni) = Len(NonEmptyPieces)
        /\ Len(author_out.blocks) = Len(NonEmptyPieces)
        /\ \A i \in DOMAIN NonEmptyPieces :
              LET p == ParseName(PieceToken(NonEmptyPieces[i]))
              IN  /\ author_out.authors[i] = DisplayName(p.first_names, p.last_name)
                  /\ author_out.blocks[i].name = author_out.authors[i]
                  /\ author_out.member[i] =
                         MatchRoster(p.first_names, p.last_name, member_roster).link
                  /\ author_out.alumni[i] =
                         MatchRoster(p.first_names, p.last_name, alumni_roster).link

\* A reached case of C4: three tokens, the middle one blank, give two authors
\* in the order written, the first matched to a member and the second not.
AuthorOrderPreservedWitness ==
    /\ pc = "authors_done"
    /\ author_pieces = <<Jo \o <<" ">> \o Sm, <<" ">>,
                         <<"J", ".", "\n", "d", "e", " ">> \o Le \o <<" ", "j", "r">> >>
    /\ Len(author_out.authors) = 2
    /\ author_out.authors[1] = <<"\"">> \o Jo \o <<" ">> \o Sm \o <<"\"">>
    /\ author_out.authors[2] = <<"\"", "J", ".", " ", "d", "e", " ">> \o Le \o <<"\"">>
    /\ author_out.member = << <<"j", "o">>, <<>> >>

(***************************************************************************)
(* Spec: a run of import_bibtex over the entries of a BibTeX file, the     *)
(* rosters loaded.                                                         *)
(***************************************************************************)
MaxEntries == 3

EntryPool ==
    { [ID |-> <<"a", ".", "1">>, title |-> <<"T">>,
       year |-> <<"2","0","2","0">>, month |-> <<"7">>,
       author |-> Jo \o <<" ">> \o Sm, keywords |-> <<"x", ",", "Y">>],
      [ID |-> <<"b">>, title |-> <<"U">>,
       date |-> <<"2","0","2","0","-","0","3">>, month |-> <<"J","u","l","y">>,
       editor |-> Ja \o <<" ">> \o Sm],
      [ID |-> <<"c">>, title |-> <<"V">>,
       year |-> <<"2","0","2","0">>, month |-> <<"F","o","o">>],
      [ID |-> <<"a", "_", "1">>, title |-> <<"W">>, author |-> Sm] }

\* The orders of up to MaxEntries different entries of the pool.
EntryOrders ==
    {order \in SeqsUpTo(EntryPool, MaxEntries) :
        /\ order /= <<>>
        /\ \A i, j \in DOMAIN order : i /= j => order[i] /= order[j]}

Trees ==
    {[content_dir |-> c, static_dir |-> s, md |-> <<>>, bib |-> <<>>] :
        c \in BOOLEAN, s \in BOOLEAN}

Init ==
    /\ pc = "import"
    /\ entries \in EntryOrders
    /\ next = 1
    /\ config \in [overwrite : BOOLEAN, normalize : BOOLEAN, dry_run : BOOLEAN]
    /\ fs_init \in Trees
    /\ fs = fs_init
    /\ log = <<>>
    /\ outcome = <<>>
    /\ member_roster = <<[link |-> <<"j", "o">>, last |-> Sm, first |-> Jo]>>
    /\ alumni_roster = <<[link |-> <<"j", "a">>, last |-> Sm, first |-> Ja]>>
    /\ SlugIdle /\ TagIdle /\ DateIdle /\ AuthorIdle

\* One iteration of the loop of import_bibtex: parse_bibtex_entry on the next
\* entry.
ImportEntry ==
    /\ pc = "import"
    /\ next <= Len(entries)
    /\ \E r \in {ParseEntry(entries[next], member_roster, alumni_roster, config, fs)} :
           /\ fs' = r.fs
           /\ log' = log \o r.log
           /\ outcome' = Append(outcome, [status |-> r.status, error |-> r.error,
                                          record |-> r.record])
           /\ pc' = IF r.status = "raised" THEN "crashed"
                    ELSE IF next = Len(entries) THEN "done" ELSE "import"
    /\ next' = next + 1
    /\ UNCHANGED <<entries, config, fs_init, rosterVars, slugVars, tagVars, dateVars,
                   authorVars>>

Next == ImportEntry

Spec == Init /\ [][Next]_vars

\* The month field is a textual month (longer than 2 characters) whose first
\* 3 letters, title-cased, are none of the 12 abbreviations.
UnrecognizedMonth(entry) ==
    /\ Has(entry, "month")
    /\ Len(entry.month) > 2
    /\ \A k \in 2..13 : month_abbr[k] /= MonthAbbr(entry.month)

\* C5: an unrecognized textual month is reported and recovered: for an entry
\* that is processed and whose month field is resolved, an error is logged,
\* the resolved month is "01", the record is emitted and the run goes on.
UnrecognizedMonthRecovered ==
    \A i \in DOMAIN outcome :
        (/\ UnrecognizedMonth(entries[i])
         /\ UsesMonthField(entries[i], DateFromComposite(entries[i]).month)
         /\ outcome[i].status /= "skipped"
         /\ outcome[i].error /= "FileNotFoundError") =>
            /\ outcome[i].status = "emitted"
            /\ outcome[i].record.date.month = <<"0", "1">>
            /\ \E j \in DOMAIN log : log[j] = "Please update the entry with a valid month."
            /\ pc /= "crashed"

\* All orders of the elements of a sequence of different elements.
Orderings(order) ==
    {p \in [DOMAIN order -> Range(order)] : \A x \in Range(order) : x \in Range(p)}

\* An entry that parse_bibtex_entry does not leave by an exception of the
\* date or author code.
ParsesCleanly(entry) ==
    /\ ~ResolveDate(entry).raised
    /\ ~AuthorBlocks(AuthorsOf(entry), member_roster, alumni_roster).raised

\* C8: entries are independent across a run: every processing order of the
\* same entries, from the same tree and with the same flags, ends with the
\* same emitted bundles.  Stated for runs in which no exception is raised
\* and no two entries share a slug.
EntriesIndependent ==
    (/\ pc = "done"
     /\ fs_init.static_dir
     /\ \A i \in DOMAIN entries : ParsesCleanly(entries[i])
     /\ \A i, j \in DOMAIN entries :
           i /= j => slugify(entries[i].ID, TRUE) /= slugify(entries[j].ID, TRUE)) =>
        \A p \in Orderings(entries) :
            LET end == RunFrom(p, member_roster, alumni_roster, config, fs_init)
            IN  end.md = fs.md /\ end.bib = fs.bib

====
